---- MODULE Spec2Model ----
(***************************************************************************)
(* Model of motuwe-extension/images/create_icons.py: the function          *)
(* create_icon(size, filename), which hand-assembles a PNG byte stream     *)
(* (signature, IHDR, IDAT, IEND) and writes it to a file, and the driver   *)
(* at the end of the script, which calls it four times.                    *)
(*                                                                         *)
(* Bytes are integers 0..255 and byte strings are sequences of them.       *)
(* TLC's integers are 32-bit signed, so a Python int that has to be able   *)
(* to reach 2^32 (the size argument, a CRC-32) is kept as a pair of        *)
(* 16-bit halves [hi, lo] standing for hi * 65536 + lo, with 0 <= lo <     *)
(* 65536 and the sign carried by hi.                                       *)
(***************************************************************************)
EXTENDS Integers, Sequences, FiniteSets, TLC

(***************************************************************************)
(* Bounds of the model.                                                    *)
(***************************************************************************)
\* Largest positive size the harness passes to create_icon.
MaxSize == 3

\* Number of create_icon calls the harness makes in one run.
MaxCalls == 2

\* A failed write leaves a prefix of the data; the prefixes kept are those
\* at most MaxCut bytes long and those at most MaxCut bytes short.
MaxCut == 1

(***************************************************************************)
(* Integers and bytes.                                                     *)
(***************************************************************************)
Half == 65536

\* The Python int n (a TLC integer) as a pair of halves.
PyInt(n) == [hi |-> n \div Half, lo |-> n % Half]

\* 2^32, the first value struct's 'I' format rejects from above.
TwoTo32 == [hi |-> Half, lo |-> 0]

\* The TLC integer of a pair (only for pairs known to be small).
IntOf(p) == p.hi * Half + p.lo

RECURSIVE XorBits(_, _, _)
XorBits(a, b, n) ==
    IF n = 0 THEN 0
    ELSE ((a + b) % 2) + 2 * XorBits(a \div 2, b \div 2, n - 1)

\* Bitwise exclusive or of two bytes, tabulated.
XorTab == [a \in 0..255 |-> [b \in 0..255 |-> XorBits(a, b, 8)]]

Xor8(a, b) == XorTab[a][b]

Xor16(a, b) ==
    Xor8(a \div 256, b \div 256) * 256 + Xor8(a % 256, b % 256)

Xor32(p, q) == [hi |-> Xor16(p.hi, q.hi), lo |-> Xor16(p.lo, q.lo)]

\* p >> 1 and p >> 8 of an unsigned 32-bit pair.
Shr1(p) == [hi |-> p.hi \div 2, lo |-> (p.lo \div 2) + (p.hi % 2) * 32768]

Shr8(p) == [hi |-> p.hi \div 256, lo |-> (p.lo \div 256) + (p.hi % 256) * 256]

(***************************************************************************)
(* zlib.crc32: CRC-32 with the reflected polynomial 0xEDB88320, initial    *)
(* value and final exclusive-or 0xFFFFFFFF, table driven as in zlib.       *)
(***************************************************************************)
CrcPoly == [hi |-> 60856, lo |-> 33568]

AllOnes == [hi |-> 65535, lo |-> 65535]

RECURSIVE CrcBitSteps(_, _)
CrcBitSteps(c, n) ==
    IF n = 0 THEN c
    ELSE CrcBitSteps(IF c.lo % 2 = 1 THEN Xor32(Shr1(c), CrcPoly) ELSE Shr1(c),
                     n - 1)

CrcTable == [i \in 0..255 |-> CrcBitSteps([hi |-> 0, lo |-> i], 8)]

CrcByte(c, b) == Xor32(Shr8(c), CrcTable[Xor8(c.lo % 256, b)])

\* The register after bytes s[from..to], threaded left to right.  (The test
\* c.lo < 0 is never true: it makes TLC evaluate the register before it
\* descends, instead of building a chain of Len(s) suspended evaluations.)
RECURSIVE CrcRange(_, _, _, _)
CrcRange(c, s, from, to) ==
    IF from > to \/ c.lo < 0 THEN c
    ELSE IF from = to THEN CrcByte(c, s[from])
    ELSE LET mid == (from + to) \div 2
         IN  CrcRange(CrcRange(c, s, from, mid), s, mid + 1, to)

crc32(s) == Xor32(CrcRange(AllOnes, s, 1, Len(s)), AllOnes)

(***************************************************************************)
(* struct.pack: 'I' is a 4-byte big-endian unsigned integer and raises     *)
(* struct.error outside 0 .. 2^32 - 1; 'B' is one byte.                    *)
(***************************************************************************)
PackFitsI(p) == p.hi >= 0 /\ p.hi < Half

PackI(p) == << p.hi \div 256, p.hi % 256, p.lo \div 256, p.lo % 256 >>

PackB(n) == << n >>

(***************************************************************************)
(* zlib.compress.  The library's contract is a zlib stream (RFC 1950)      *)
(* whose deflate data (RFC 1951) inflates to the input; which block types  *)
(* it picks depends on the level and does not matter to the caller.  The   *)
(* model emits the stream made of stored blocks: the two header bytes,     *)
(* blocks of at most 65535 bytes each preceded by BFINAL/BTYPE, LEN and    *)
(* its complement NLEN (little-endian), and the Adler-32 of the input,     *)
(* big-endian.                                                             *)
(***************************************************************************)
AdlerMod == 65521

StoredMax == 65535

AdlerByte(st, b) ==
    LET a == (st.a + b) % AdlerMod
    IN  [a |-> a, b |-> (st.b + a) % AdlerMod]

RECURSIVE AdlerRange(_, _, _, _)
AdlerRange(st, s, from, to) ==
    IF from > to \/ st.a < 0 THEN st
    ELSE IF from = to THEN AdlerByte(st, s[from])
    ELSE LET mid == (from + to) \div 2
         IN  AdlerRange(AdlerRange(st, s, from, mid), s, mid + 1, to)

adler32(s) ==
    LET st == AdlerRange([a |-> 1, b |-> 0], s, 1, Len(s))
    IN  [hi |-> st.b, lo |-> st.a]

RECURSIVE StoredBlocks(_)
StoredBlocks(s) ==
    LET n == IF Len(s) > StoredMax THEN StoredMax ELSE Len(s)
        final == IF Len(s) > StoredMax THEN 0 ELSE 1
        head == << final, n % 256, n \div 256,
                   255 - (n % 256), 255 - (n \div 256) >>
    IN  IF final = 1 THEN head \o s
        ELSE head \o SubSeq(s, 1, n) \o StoredBlocks(SubSeq(s, n + 1, Len(s)))

ZlibHeader == << 120, 1 >>

compress(s) == ZlibHeader \o StoredBlocks(s) \o PackI(adler32(s))

(***************************************************************************)
(* The expressions of create_icon.                                         *)
(***************************************************************************)
\* header, line 9.
Signature == << 137, 80, 78, 71, 13, 10, 26, 10 >>

TagIHDR == << 73, 72, 68, 82 >>

TagIDAT == << 73, 68, 65, 84 >>

TagIEND == << 73, 69, 78, 68 >>

bit_depth == 8

color_type == 2

compression == 0

filter_method == 0

interlace == 0

\* The length written in front of the IHDR payload, line 25.
IhdrLength == 13

\* IhdrData with the bit depth and the colour type in each other's place.
IhdrDataSwapped(w, h) ==
    PackI(w) \o PackI(h) \o PackB(color_type) \o PackB(bit_depth)
        \o PackB(compression) \o PackB(filter_method) \o PackB(interlace)

\* struct.pack('>IIBBBBB', width, height, ...), line 23.
IhdrData(w, h) ==
    PackI(w) \o PackI(h) \o PackB(bit_depth) \o PackB(color_type)
        \o PackB(compression) \o PackB(filter_method) \o PackB(interlace)

\* Lines 24-25.
IhdrChunk(data) ==
    PackI(PyInt(IhdrLength)) \o TagIHDR \o data \o PackI(crc32(TagIHDR \o data))

\* b'\x00', the filter byte that starts a scanline, line 30.
FilterNone == << 0 >>

\* b'\x4c\xaf\x50', line 33.
Green == << 76, 175, 80 >>

\* The inner loop, lines 31-33: n pixels appended to line.
RECURSIVE AppendPixels(_, _)
AppendPixels(line, n) ==
    IF n <= 0 THEN line ELSE AppendPixels(line \o Green, n - 1)

\* Scanline without the filter byte in front.
ScanlineNoFilter(w) == AppendPixels(<< >>, IntOf(w))

\* One pass of the outer loop's body, lines 30-33.
Scanline(w) == AppendPixels(FilterNone, IntOf(w))

\* The outer loop, lines 29-34: n more scanlines appended to rows.
RECURSIVE Rows(_, _, _)
Rows(rows, w, n) ==
    IF n <= 0 THEN rows ELSE Rows(Append(rows, Scanline(w)), w, n - 1)

\* b''.join(scanlines), line 36.
RECURSIVE JoinFrom(_, _)
JoinFrom(rows, i) ==
    IF i > Len(rows) THEN << >> ELSE rows[i] \o JoinFrom(rows, i + 1)

\* Join that loses the first row.
JoinSkipFirst(rows) == JoinFrom(rows, 2)

Join(rows) == JoinFrom(rows, 1)

\* IdatChunk with the CRC taken over the payload alone.
IdatChunkCrcOfPayload(data) ==
    PackI(PyInt(Len(data))) \o TagIDAT \o data \o PackI(crc32(data))

\* Lines 38-39.
IdatChunk(data) ==
    PackI(PyInt(Len(data))) \o TagIDAT \o data \o PackI(crc32(TagIDAT \o data))

\* Lines 42-43.
IendChunk == PackI(PyInt(0)) \o TagIEND \o PackI(crc32(TagIEND))

\* PngData with the IDAT chunk in front of the IHDR chunk.
PngDataIdatFirst(hdr, ihdr, idat, iend) == hdr \o idat \o ihdr \o iend

\* Line 46.
PngData(hdr, ihdr, idat, iend) == hdr \o ihdr \o idat \o iend

(***************************************************************************)
(* The script's inputs and its environment.                                *)
(***************************************************************************)
\* The calls with the first two in each other's place.
IconCallsSwapped ==
    << [size |-> PyInt(32), filename |-> "icon32.png"],
       [size |-> PyInt(16), filename |-> "icon16.png"],
       [size |-> PyInt(48), filename |-> "icon48.png"],
       [size |-> PyInt(128), filename |-> "icon128.png"] >>

\* The four calls at the end of the script, lines 53-56.
IconCalls ==
    << [size |-> PyInt(16), filename |-> "icon16.png"],
       [size |-> PyInt(32), filename |-> "icon32.png"],
       [size |-> PyInt(48), filename |-> "icon48.png"],
       [size |-> PyInt(128), filename |-> "icon128.png"] >>

Files == { IconCalls[i].filename : i \in 1..Len(IconCalls) }

\* The arguments the harness passes: a negative size, zero, the positive
\* sizes up to MaxSize, and 2^32; two of the file names.
HarnessSizes == { PyInt(n) : n \in -1..MaxSize } \cup { TwoTo32 }

HarnessFiles == { "icon16.png", "icon32.png" }

\* A file of the file system: absent, or present with its bytes.
Absent == [exists |-> FALSE, data |-> << >>]

Present(bytes) == [exists |-> TRUE, data |-> bytes]

\* What a file that was there before the script ran holds.
OldData == << 111, 108, 100 >>

\* No value: an unbound local, no open file, no pending exception.
None == "None"

\* An unbound integer local: the pair of no integer.
NoInt == [hi |-> 0, lo |-> -1]

(***************************************************************************)
(* State.                                                                  *)
(***************************************************************************)
VARIABLES
    pc,          \* where the script is
    ip,          \* number of the create_icon call being made or made next
    size, filename,                       \* create_icon's arguments
    width, height, ihdr_data, ihdr_chunk, \* its locals, lines 15-25
    scanlines, raw_data, compressed, idat_chunk,      \* lines 28-39
    iend_chunk, png_data,                 \* lines 42-46
    f,           \* the file name the open file object writes to, or None
    fs,          \* the file system: file name -> file
    unwritable,  \* the file names open() refuses
    stdout,      \* the lines printed
    exc          \* the exception that ended the script, or None

args == << size, filename >>

ihdrLocals == << width, height, ihdr_data, ihdr_chunk >>

idatLocals == << scanlines, raw_data, compressed, idat_chunk >>

tailLocals == << iend_chunk, png_data >>

world == << f, fs, unwritable, stdout >>

vars == << pc, ip, args, ihdrLocals, idatLocals, tailLocals, world, exc >>

Unbound ==
    /\ size = NoInt /\ filename = None
    /\ width = NoInt /\ height = NoInt
    /\ ihdr_data = << >> /\ ihdr_chunk = << >>
    /\ scanlines = << >>
    /\ raw_data = << >> /\ compressed = << >> /\ idat_chunk = << >>
    /\ iend_chunk = << >> /\ png_data = << >>

\* Before the script runs: every file of interest is absent or holds old
\* data, and any of them may be unwritable.
InitWorld(names) ==
    /\ pc = "main" /\ ip = 1 /\ exc = None /\ Unbound
    /\ f = None /\ stdout = << >>
    /\ \E old \in BOOLEAN :
          fs = [n \in Files |-> IF old THEN Present(OldData) ELSE Absent]
    /\ unwritable \in SUBSET names

Init == InitWorld(HarnessFiles)

DriverInit == InitWorld(Files)

(***************************************************************************)
(* create_icon, statement by statement.                                    *)
(***************************************************************************)
\* create_icon(c.size, c.filename) is entered.
Call(c) ==
    /\ pc = "main"
    /\ size' = c.size /\ filename' = c.filename
    /\ pc' = "ihdr"
    /\ UNCHANGED << ip, ihdrLocals, idatLocals, tailLocals, world, exc >>

\* Ihdr with the file opened before the header is packed.
IhdrAfterOpen ==
    /\ pc = "ihdr"
    /\ width' = size /\ height' = size
    /\ IF PackFitsI(width') /\ PackFitsI(height')
       THEN /\ ihdr_data' = IhdrData(width', height')
            /\ ihdr_chunk' = IhdrChunk(ihdr_data')
            /\ pc' = "scan" /\ exc' = exc /\ fs' = fs
       ELSE /\ pc' = "crashed" /\ exc' = "struct.error"
            /\ fs' = [fs EXCEPT ![filename] = Present(<< >>)]
            /\ UNCHANGED << ihdr_data, ihdr_chunk >>
    /\ UNCHANGED << ip, args, idatLocals, tailLocals, f, unwritable, stdout >>

\* Lines 9-25: the dimensions and the IHDR chunk.  struct.pack raises
\* struct.error when width or height does not fit the 'I' format, and
\* nothing catches it.
Ihdr ==
    /\ pc = "ihdr"
    /\ width' = size /\ height' = size
    /\ IF PackFitsI(width') /\ PackFitsI(height')
       THEN /\ ihdr_data' = IhdrData(width', height')
            /\ ihdr_chunk' = IhdrChunk(ihdr_data')
            /\ pc' = "scan" /\ exc' = exc
       ELSE /\ pc' = "crashed" /\ exc' = "struct.error"
            /\ UNCHANGED << ihdr_data, ihdr_chunk >>
    /\ UNCHANGED << ip, args, idatLocals, tailLocals, world >>

\* Lines 28-34: scanlines = [] and the loop over range(height), which
\* appends one scanline of width pixels per row.
Scan ==
    /\ pc = "scan"
    /\ scanlines' = Rows(<< >>, width, IntOf(height))
    /\ pc' = "idat"
    /\ UNCHANGED << ip, args, ihdrLocals, raw_data, compressed, idat_chunk,
                    tailLocals, world, exc >>

\* Lines 36-39.
Idat ==
    /\ pc = "idat"
    /\ raw_data' = Join(scanlines)
    /\ compressed' = compress(raw_data')
    /\ idat_chunk' = IdatChunk(compressed')
    /\ pc' = "iend"
    /\ UNCHANGED << ip, args, ihdrLocals, scanlines, tailLocals, world, exc >>

\* Lines 42-43.
Iend ==
    /\ pc = "iend"
    /\ iend_chunk' = IendChunk
    /\ pc' = "concat"
    /\ UNCHANGED << ip, args, ihdrLocals, idatLocals, png_data, world, exc >>

\* Line 46.
Concat ==
    /\ pc = "concat"
    /\ png_data' = PngData(Signature, ihdr_chunk, idat_chunk, iend_chunk)
    /\ pc' = "open"
    /\ UNCHANGED << ip, args, ihdrLocals, idatLocals, iend_chunk, world, exc >>

\* Open in append mode: the file keeps its bytes.
OpenNoTruncate ==
    /\ pc = "open"
    /\ IF filename \in unwritable
       THEN /\ pc' = "crashed" /\ exc' = "OSError"
            /\ UNCHANGED << f, fs >>
       ELSE /\ f' = filename
            /\ fs' = [fs EXCEPT ![filename] = Present(fs[filename].data)]
            /\ pc' = "write" /\ exc' = exc
    /\ UNCHANGED << ip, args, ihdrLocals, idatLocals, tailLocals,
                    unwritable, stdout >>

\* Line 48, open(filename, 'wb'): it raises OSError and leaves the file
\* alone when the path is not writable, and otherwise creates the file or
\* truncates it to no bytes.
Open ==
    /\ pc = "open"
    /\ IF filename \in unwritable
       THEN /\ pc' = "crashed" /\ exc' = "OSError"
            /\ UNCHANGED << f, fs >>
       ELSE /\ f' = filename
            /\ fs' = [fs EXCEPT ![filename] = Present(<< >>)]
            /\ pc' = "write" /\ exc' = exc
    /\ UNCHANGED << ip, args, ihdrLocals, idatLocals, tailLocals,
                    unwritable, stdout >>

\* The lengths of the prefixes of data that a failed write may leave.
Cuts(data) ==
    { k \in 0..(Len(data) - 1) : k <= MaxCut \/ k >= Len(data) - MaxCut }

\* Line 49 and the end of the with block: f.write(png_data) and the close
\* that flushes it.  Either every byte reaches the file, or the device
\* fails (disk full, I/O error) after a prefix of them and OSError leaves
\* the with block, which still closes the file.
Write ==
    /\ pc = "write"
    /\ \E k \in Cuts(png_data) \cup { Len(png_data) } :
          /\ fs' = [fs EXCEPT ![f] = Present(SubSeq(png_data, 1, k))]
          /\ IF k = Len(png_data)
             THEN pc' = "print" /\ exc' = exc
             ELSE pc' = "crashed" /\ exc' = "OSError"
    /\ f' = None
    /\ UNCHANGED << ip, args, ihdrLocals, idatLocals, tailLocals,
                    unwritable, stdout >>

\* Line 50 and the return: the locals are gone, the driver moves on.
PrintReturn ==
    /\ pc = "print"
    /\ stdout' = Append(stdout, << "Created", filename >>)
    /\ pc' = "main" /\ ip' = ip + 1
    /\ size' = NoInt /\ filename' = None
    /\ width' = NoInt /\ height' = NoInt
    /\ ihdr_data' = << >> /\ ihdr_chunk' = << >>
    /\ scanlines' = << >>
    /\ raw_data' = << >> /\ compressed' = << >> /\ idat_chunk' = << >>
    /\ iend_chunk' = << >> /\ png_data' = << >>
    /\ UNCHANGED << f, fs, unwritable, exc >>

Body == Ihdr \/ Scan \/ Idat \/ Iend \/ Concat \/ Open \/ Write \/ PrintReturn

\* The harness: up to MaxCalls calls with any of the arguments.
CallAny ==
    /\ ip <= MaxCalls
    /\ \E s \in HarnessSizes, n \in HarnessFiles :
          Call([size |-> s, filename |-> n])

\* A driver that catches the exception of a failed call and goes on.
DriverCallCatching ==
    /\ ip <= Len(IconCalls)
    /\ \/ Call(IconCalls[ip])
       \/ /\ pc = "crashed" /\ ip < Len(IconCalls)
          /\ pc' = "main" /\ ip' = ip + 1 /\ exc' = None
          /\ UNCHANGED << args, ihdrLocals, idatLocals, tailLocals, world >>

\* The driver, lines 53-56: the next of the four calls.
DriverCall ==
    /\ ip <= Len(IconCalls)
    /\ Call(IconCalls[ip])

Next == CallAny \/ Body

DriverNext == DriverCall \/ Body

Spec == Init /\ [][Next]_vars

DriverSpec == DriverInit /\ [][DriverNext]_vars

(***************************************************************************)
(* A PNG reader, used to state the properties: it takes a byte stream      *)
(* apart the way a conforming decoder does, by the length fields.          *)
(***************************************************************************)
\* The unsigned integer of 4 big-endian bytes; -1 when it is 2^31 or more.
U32(b) ==
    IF b[1] >= 128 THEN -1
    ELSE ((b[1] * 256 + b[2]) * 256 + b[3]) * 256 + b[4]

\* CRC-32 by the definition, bit by bit, without the table.
RECURSIVE RefCrcRange(_, _, _)
RefCrcRange(c, s, i) ==
    IF i > Len(s) \/ c.lo < 0 THEN c
    ELSE RefCrcRange(
             CrcBitSteps([hi |-> c.hi,
                          lo |-> (c.lo \div 256) * 256 + XorBits(c.lo % 256, s[i], 8)],
                         8),
             s, i + 1)

RefCrc32(s) == Xor32(RefCrcRange(AllOnes, s, 1), AllOnes)

BadChunk == [ok |-> FALSE, length |-> 0, type |-> << >>, payload |-> << >>,
             crc |-> << >>]

\* The chunks of s from position pos on; a chunk that runs past the end of
\* s ends the list as BadChunk.
RECURSIVE ChunksFrom(_, _)
ChunksFrom(s, pos) ==
    IF pos > Len(s) THEN << >>
    ELSE IF pos + 11 > Len(s) THEN << BadChunk >>
    ELSE LET n == U32(SubSeq(s, pos, pos + 3))
         IN  IF n < 0 \/ pos + 11 + n > Len(s) THEN << BadChunk >>
             ELSE << [ok |-> TRUE, length |-> n,
                      type |-> SubSeq(s, pos + 4, pos + 7),
                      payload |-> SubSeq(s, pos + 8, pos + 7 + n),
                      crc |-> SubSeq(s, pos + 8 + n, pos + 11 + n)] >>
                  \o ChunksFrom(s, pos + 12 + n)

Chunks(png) == ChunksFrom(png, Len(Signature) + 1)

ChunkSound(c) == c.ok /\ c.crc = PackI(RefCrc32(c.type \o c.payload))

\* Inflating a deflate stream of stored blocks that starts at z[pos].
RECURSIVE InflateFrom(_, _, _)
InflateFrom(z, pos, out) ==
    IF pos + 4 > Len(z) THEN [ok |-> FALSE, data |-> out, next |-> pos]
    ELSE LET final == z[pos] % 2
             btype == (z[pos] \div 2) % 4
             n == z[pos + 1] + 256 * z[pos + 2]
             nn == z[pos + 3] + 256 * z[pos + 4]
         IN  IF btype # 0 \/ n + nn # 65535 \/ pos + 4 + n > Len(z)
             THEN [ok |-> FALSE, data |-> out, next |-> pos]
             ELSE IF final = 1
             THEN [ok |-> TRUE, data |-> out \o SubSeq(z, pos + 5, pos + 4 + n),
                   next |-> pos + 5 + n]
             ELSE InflateFrom(z, pos + 5 + n, out \o SubSeq(z, pos + 5, pos + 4 + n))

\* zlib.decompress: the header check, the blocks, the Adler-32 trailer.
Inflate(z) ==
    IF Len(z) < 2 \/ z[1] % 16 # 8 \/ (z[1] * 256 + z[2]) % 31 # 0
          \/ (z[2] \div 32) % 2 # 0
    THEN [ok |-> FALSE, data |-> << >>]
    ELSE LET r == InflateFrom(z, 3, << >>)
         IN  IF r.ok /\ r.next + 3 = Len(z)
                     /\ SubSeq(z, r.next, Len(z)) = PackI(adler32(r.data))
             THEN [ok |-> TRUE, data |-> r.data]
             ELSE [ok |-> FALSE, data |-> << >>]

NoImage == [ok |-> FALSE, width |-> 0, height |-> 0, pixels |-> << >>]

\* The image a PNG file holds: truecolour, 8 bits, not interlaced, every
\* row with filter type 0.  pixels[r][c] is the RGB triple of row r, column c.
Decode(png) ==
    IF Len(png) < Len(Signature) \/ SubSeq(png, 1, Len(Signature)) # Signature
    THEN NoImage
    ELSE LET ch == Chunks(png)
         IN  IF Len(ch) # 3 \/ \E i \in 1..Len(ch) : ~ChunkSound(ch[i])
             THEN NoImage
             ELSE IF ch[1].type # TagIHDR \/ ch[1].length # 13
                     \/ ch[2].type # TagIDAT \/ ch[3].type # TagIEND
                     \/ SubSeq(ch[1].payload, 9, 13) # << 8, 2, 0, 0, 0 >>
             THEN NoImage
             ELSE LET w == U32(SubSeq(ch[1].payload, 1, 4))
                      h == U32(SubSeq(ch[1].payload, 5, 8))
                      z == Inflate(ch[2].payload)
                      stride == 1 + 3 * w
                  IN  IF w < 0 \/ h < 0 \/ ~z.ok \/ Len(z.data) # h * stride
                         \/ \E r \in 0..(h - 1) : z.data[r * stride + 1] # 0
                      THEN NoImage
                      ELSE [ok |-> TRUE, width |-> w, height |-> h,
                            pixels |->
                              [r \in 1..h |-> [c \in 1..w |->
                                 SubSeq(z.data, (r - 1) * stride + 3 * c - 1,
                                                (r - 1) * stride + 3 * c + 1)]]]

\* A Python int known to be positive, zero, or in the range of 'I'.
Positive(p) == p.hi > 0 \/ (p.hi = 0 /\ p.lo > 0)

IsZero(p) == p.hi = 0 /\ p.lo = 0

\* The uniform grid the script is to draw.
GreenGrid(n) == [r \in 1..n |-> [c \in 1..n |-> << 76, 175, 80 >>]]

\* The places where the three chunks, and then the whole stream, are bound.
ChunksBuilt == pc \in { "concat", "open", "write", "print" }

StreamBuilt == pc \in { "open", "write", "print" }

RawBuilt == pc \in { "iend", "concat", "open", "write", "print" }

IhdrBuilt == pc \in { "scan", "idat" } \/ RawBuilt

\* chunk is length, tag, payload and CRC, with the length and the CRC those
\* of this payload.
ChunkWellFormed(chunk, tag, payload) ==
    /\ Len(chunk) = 12 + Len(payload)
    /\ U32(SubSeq(chunk, 1, 4)) = Len(payload)
    /\ SubSeq(chunk, 5, 8) = tag
    /\ SubSeq(chunk, 9, 8 + Len(payload)) = payload
    /\ SubSeq(chunk, 9 + Len(payload), Len(chunk)) = PackI(RefCrc32(tag \o payload))

\* C1: in each of the three chunks create_icon builds, and in each chunk a
\* reader finds in the stream it assembles, the length field is the byte
\* count of the payload (13 for IHDR, len(compressed) for IDAT, 0 for IEND)
\* and the CRC field is the CRC-32 of the type bytes followed by the payload.
C1_ChunkLengthAndCrc ==
    /\ ChunksBuilt =>
          /\ Len(ihdr_data) = 13
          /\ ChunkWellFormed(ihdr_chunk, TagIHDR, ihdr_data)
          /\ ChunkWellFormed(idat_chunk, TagIDAT, compressed)
          /\ ChunkWellFormed(iend_chunk, TagIEND, << >>)
    /\ StreamBuilt =>
          LET ch == Chunks(png_data)
          IN  /\ Len(ch) = 3
              /\ \A i \in 1..Len(ch) :
                    ChunkSound(ch[i]) /\ ch[i].length = Len(ch[i].payload)
              /\ ch[1].length = 13
              /\ ch[2].length = Len(compressed) /\ ch[2].payload = compressed
              /\ ch[3].length = 0

C1_Witness == pc = "print" /\ Positive(size) /\ Len(compressed) > 11

\* C2: the bytes written are the signature 89 50 4E 47 0D 0A 1A 0A, then the
\* IHDR chunk, then one IDAT chunk, then an IEND chunk with no payload, and
\* nothing after its CRC.
C2_StreamLayout ==
    /\ StreamBuilt =>
          /\ png_data = << 137, 80, 78, 71, 13, 10, 26, 10 >>
                           \o ihdr_chunk \o idat_chunk \o iend_chunk
          /\ LET ch == Chunks(png_data)
             IN  /\ [i \in 1..Len(ch) |-> ch[i].type] = << TagIHDR, TagIDAT, TagIEND >>
                 /\ \A i \in 1..Len(ch) : ch[i].ok
                 /\ ch[Len(ch)].length = 0
    /\ pc = "print" => fs[filename] = Present(png_data)

C2_Witness ==
    pc = "print" /\ Positive(size) /\ fs[filename].data = png_data
        /\ Len(png_data) > 57

\* C3: for a positive size N the IHDR payload is 13 bytes: N twice as a
\* 4-byte big-endian integer, then 8, 2, 0, 0, 0; and the height and width
\* it declares are the number of rows built and of pixels in each row.
C3_IhdrPayload ==
    /\ (IhdrBuilt /\ Positive(size)) =>
          /\ Len(ihdr_data) = 13
          /\ U32(SubSeq(ihdr_data, 1, 4)) = IntOf(size)
          /\ U32(SubSeq(ihdr_data, 5, 8)) = IntOf(size)
          /\ SubSeq(ihdr_data, 9, 13) = << 8, 2, 0, 0, 0 >>
    /\ (RawBuilt /\ Positive(size)) =>
          /\ Len(scanlines) = U32(SubSeq(ihdr_data, 5, 8))
          /\ \A r \in 1..Len(scanlines) :
                Len(scanlines[r]) = 1 + 3 * U32(SubSeq(ihdr_data, 1, 4))

C3_Witness == pc = "iend" /\ Positive(size) /\ Len(scanlines) = MaxSize

\* C4: for a positive size N the raw buffer is N rows of 1 + 3N bytes, each
\* a zero filter byte followed by N triples 4C AF 50.
C4_RawScanlines ==
    (RawBuilt /\ Positive(size)) =>
        LET n == IntOf(size)
            stride == 1 + 3 * n
        IN  /\ Len(raw_data) = n * stride
            /\ \A r \in 0..(n - 1) :
                  /\ raw_data[r * stride + 1] = 0
                  /\ \A c \in 0..(n - 1) :
                        SubSeq(raw_data, r * stride + 3 * c + 2,
                                         r * stride + 3 * c + 4) = << 76, 175, 80 >>

C4_Witness == pc = "iend" /\ Positive(size) /\ Len(raw_data) = MaxSize * (1 + 3 * MaxSize)

\* C5: the file written for a positive size N decodes to an N by N image
\* whose every pixel is (76, 175, 80); and any other file that holds an
\* image of the same size, left by an earlier encode, decodes to the same
\* pixels.
C5_RoundTrip ==
    (pc = "print" /\ Positive(size)) =>
        LET img == Decode(fs[filename].data)
        IN  /\ img.ok
            /\ img.width = IntOf(size) /\ img.height = IntOf(size)
            /\ img.pixels = GreenGrid(IntOf(size))
            /\ \A n \in Files \ { filename } :
                  LET other == Decode(fs[n].data)
                  IN  (other.ok /\ other.width = img.width)
                          => other.pixels = img.pixels

C5_Witness ==
    /\ pc = "print" /\ Positive(size)
    /\ \E n \in Files \ { filename } :
          Decode(fs[n].data).ok /\ Decode(fs[n].data).width = IntOf(size)

\* C6 (as claimed): no call with a non-positive size reaches the file-write
\* step or produces an output file: its file is never opened, created or
\* written.
C6_NonPositiveRejected ==
    (pc # "main" /\ ~Positive(size)) =>
        /\ pc \notin { "write", "print" }
        /\ f = None

\* file holds some, but not all, of the bytes of data, from the first on.
Partial(file, data) ==
    /\ file.exists
    /\ Len(file.data) < Len(data)
    /\ file.data = SubSeq(data, 1, Len(file.data))

\* C8 (as claimed): whatever way the call ends, the target file holds the
\* complete image or what it held before; it is never left empty or with
\* only part of the image.
C8_AllOrNothing ==
    (pc = "crashed" /\ exc = "OSError") => ~Partial(fs[filename], png_data)

\* C8 (amended): the stream is complete before the file is opened and no
\* earlier statement touches a file; an open that fails leaves the file as
\* it was, one that succeeds leaves it empty at once; the write then leaves
\* the complete image, or on failure a proper prefix of it, and touches no
\* other file.
C8_AssembledThenTruncated ==
    /\ [](pc = "open" =>
            /\ png_data = Signature \o ihdr_chunk \o idat_chunk \o iend_chunk
            /\ Len(png_data) >= 57
            /\ f = None)
    /\ [][pc \notin { "open", "write" } => fs' = fs]_vars
    /\ [][pc = "open" =>
            /\ png_data' = png_data
            /\ IF pc' = "crashed"
               THEN fs' = fs /\ exc' = "OSError"
               ELSE /\ pc' = "write"
                    /\ fs' = [fs EXCEPT ![filename] = Present(<< >>)]]_vars
    /\ [][pc = "write" =>
            /\ \A n \in Files \ { filename } : fs'[n] = fs[n]
            /\ IF pc' = "print"
               THEN fs'[filename] = Present(png_data)
               ELSE /\ pc' = "crashed" /\ exc' = "OSError"
                    /\ Partial(fs'[filename], png_data)]_vars

C8_Witness ==
    /\ pc = "crashed" /\ exc = "OSError"
    /\ Partial(fs[filename], png_data)
    /\ fs["icon48.png"] = Present(OldData)

\* C10: a size outside 0 .. 2^32 - 1 fails with struct.error at the IHDR
\* packing step, with no scanline built, no file opened, created or changed
\* and nothing printed since the call began; size 0 passes that step and
\* goes on to write a file whose IHDR declares 0 by 0 and whose raw
\* scanline buffer is empty.
C10_OutOfRangeAndZero ==
    /\ [][pc = "main" => (fs' = fs /\ stdout' = stdout)]_vars
    /\ [][(pc = "ihdr" /\ ~PackFitsI(size)) =>
            /\ pc' = "crashed" /\ exc' = "struct.error"
            /\ fs' = fs /\ f' = f /\ stdout' = stdout
            /\ scanlines' = << >> /\ raw_data' = << >>]_vars
    /\ []((pc = "crashed" /\ exc = "struct.error") =>
            /\ size.hi < 0 \/ size.hi >= Half
            /\ scanlines = << >> /\ png_data = << >> /\ f = None)
    /\ [][(pc = "ihdr" /\ IsZero(size)) => pc' = "scan"]_vars
    /\ []((StreamBuilt /\ IsZero(size)) =>
            /\ SubSeq(ihdr_data, 1, 8) = << 0, 0, 0, 0, 0, 0, 0, 0 >>
            /\ scanlines = << >> /\ raw_data = << >>)
    /\ []((pc = "print" /\ IsZero(size)) => fs[filename] = Present(png_data))

C10_Witness ==
    /\ pc = "crashed" /\ exc = "struct.error" /\ size = TwoTo32
    /\ Len(stdout) = 1 /\ fs[filename].exists

\* What the driver is to do, in order: the size and the file of each call.
ExpectedCalls ==
    << << 16, "icon16.png" >>, << 32, "icon32.png" >>,
       << 48, "icon48.png" >>, << 128, "icon128.png" >> >>

\* file holds a stream that starts with the signature and an IHDR chunk
\* declaring n by n, and ends with the IEND chunk.
HoldsIcon(file, n) ==
    /\ file.exists
    /\ Len(file.data) >= 57
    /\ SubSeq(file.data, 1, 16) =
          << 137, 80, 78, 71, 13, 10, 26, 10, 0, 0, 0, 13, 73, 72, 68, 82 >>
    /\ U32(SubSeq(file.data, 17, 20)) = n
    /\ U32(SubSeq(file.data, 21, 24)) = n
    /\ SubSeq(file.data, Len(file.data) - 11, Len(file.data)) =
          << 0, 0, 0, 0, 73, 69, 78, 68, 174, 66, 96, 130 >>

\* The script has run to its end.
Done == pc = "main" /\ ip = 5

\* A file the script has not touched.
Untouched(file) == file = Absent \/ file = Present(OldData)

\* C7 (as claimed): when a write fails, the calls after it are still made,
\* so once the script has stopped every later file whose path is writable
\* has been created.  (Nothing runs after pc = "crashed", so what is not
\* there then never will be.)
C7_LaterFilesCreated ==
    pc = "crashed" =>
        \A j \in (ip + 1)..Len(ExpectedCalls) :
            ExpectedCalls[j][2] \notin unwritable
                => HoldsIcon(fs[ExpectedCalls[j][2]], ExpectedCalls[j][1])

\* C7 (amended): a failed open or write raises OSError, which nothing
\* catches: the script stops there.  No later call is made and no later
\* file is created or changed, writable or not; the files of the earlier
\* calls are complete and their confirmation lines printed.
C7_FailureEndsScript ==
    /\ [][pc # "crashed"]_vars
    /\ [](pc = "crashed" =>
            /\ exc = "OSError"
            /\ filename = ExpectedCalls[ip][2]
            /\ \A j \in (ip + 1)..Len(ExpectedCalls) :
                  Untouched(fs[ExpectedCalls[j][2]])
            /\ \A j \in 1..(ip - 1) :
                  HoldsIcon(fs[ExpectedCalls[j][2]], ExpectedCalls[j][1])
            /\ Len(stdout) = ip - 1)

C7_Witness ==
    /\ pc = "crashed" /\ ip = 2
    /\ unwritable = { "icon32.png" }
    /\ ~fs["icon48.png"].exists /\ ~fs["icon128.png"].exists

\* How far the script has come: the call it is at, and the statement in it.
Progress ==
    10 * ip + CASE pc = "main" -> 0 [] pc = "ihdr" -> 1 [] pc = "scan" -> 2
                [] pc = "idat" -> 3 [] pc = "iend" -> 4 [] pc = "concat" -> 5
                [] pc = "open" -> 6 [] pc = "write" -> 7 [] pc = "print" -> 8
                [] pc = "crashed" -> 9

\* C9: the driver makes the four calls (16, icon16.png), (32, icon32.png),
\* (48, icon48.png), (128, icon128.png) in this order and no fifth; a step
\* that changes a file changes only the file of the call in progress; a
\* confirmation line is printed only once that file holds the whole stream
\* and is closed, and before the next call starts; every step takes the
\* script forward, and when it has run to its end the four files are
\* written and the four lines printed.
C9_DriverSequence ==
    /\ [][pc = "main" =>
            /\ ip <= 4 /\ pc' = "ihdr" /\ ip' = ip
            /\ IntOf(size') = ExpectedCalls[ip][1]
            /\ filename' = ExpectedCalls[ip][2]
            /\ fs' = fs /\ stdout' = stdout]_vars
    /\ [][fs' # fs =>
            \A n \in Files \ { filename } : fs'[n] = fs[n]]_vars
    /\ [][stdout' # stdout =>
            /\ stdout' = Append(stdout, << "Created", filename >>)
            /\ fs[filename] = Present(png_data) /\ fs' = fs
            /\ f = None
            /\ pc' = "main" /\ ip' = ip + 1]_vars
    /\ [][Progress' > Progress]_vars
    /\ [](Len(stdout) = ip - 1)
    /\ [](pc = "main" =>
            \A j \in 1..(ip - 1) :
                /\ stdout[j] = << "Created", ExpectedCalls[j][2] >>
                /\ HoldsIcon(fs[ExpectedCalls[j][2]], ExpectedCalls[j][1]))
    /\ [](Done =>
            /\ Len(stdout) = 4
            /\ \A n \in Files : fs[n].exists /\ ~Untouched(fs[n]))

C9_Witness ==
    /\ pc = "ihdr" /\ ip = 4
    /\ size = PyInt(128) /\ filename = "icon128.png"
    /\ stdout = << << "Created", "icon16.png" >>, << "Created", "icon32.png" >>,
                   << "Created", "icon48.png" >> >>
    /\ \A j \in 1..3 : HoldsIcon(fs[ExpectedCalls[j][2]], ExpectedCalls[j][1])
    /\ ~HoldsIcon(fs["icon128.png"], 128)

====
